---- MODULE Spec2Model ----
(***************************************************************************)
(* The piece simulation engine of ColorTetris (class Tetris of             *)
(* src/tetris.py): the grid, the falling piece, collision, locking, row    *)
(* clearing, scoring, game over and the gravity timer.                     *)
(*                                                                         *)
(* Python indices are 0-based and are kept 0-based in every operator       *)
(* parameter (x, y, row, col); only the subscripts of TLA+ sequences add 1. *)
(***************************************************************************)
EXTENDS Integers, Sequences, FiniteSets, TLC

VARIABLES
    grid,                   \* self.grid: GRID_HEIGHT rows of GRID_WIDTH cells
    current_shape,          \* self.current_shape: matrix of 0/1
    shape_color,            \* self.shape_color: 0..6
    next_shape,             \* self.next_shape
    next_color,             \* self.next_color
    shape_x,                \* self.shape_x
    shape_y,                \* self.shape_y
    score,                  \* self.score
    level,                  \* self.level
    last_fall,              \* self.last_fall
    fall_speed,             \* self.fall_speed
    game_over,              \* self.game_over
    hard_drop_triggered,    \* self.hard_drop_triggered
    ghost_effect_active,    \* self.ghost_effect_active
    ghost_effect_frames,    \* self.ghost_effect_frames
    ghost_effect_position,  \* self.ghost_effect_position
    hard_drop_shape,        \* self.hard_drop_shape
    score_effect,           \* self.score_effect: the N of the "+N" popup, 0 for None
    score_effect_frames,    \* self.score_effect_frames
    score_effect_position,  \* self.score_effect_position
    particles,              \* self.particles: the <<row, column, colour>> they start from
    ghost_shape_enabled,    \* self.game.ghost_shape_enabled
    disable_sz_shapes,      \* self.game.disable_sz_shapes
    screen_shake_enabled,   \* self.game.screen_shake_enabled
    state,                  \* Game.state
    events,                 \* what is left of the batch pygame.event.get() returned
    buttons,                \* which list Game.buttons is
    paused_selected,        \* Game.paused_selected
    shake_duration,         \* Game.shake_duration
    ghost_y,                \* ghost_y of draw_current_shape as last drawn, -1 for none
    stage,                  \* where Game.run is in its loop: "events" or "draw"
    ncalls,                 \* number of engine calls made in this behaviour
    last,                   \* the last engine call: what it was given and what it did
    probe                   \* a call of check_collision on its own: arguments and result

coreVars == <<grid, current_shape, shape_color, next_shape, next_color,
              shape_x, shape_y, score, game_over>>
timerVars == <<level, last_fall, fall_speed>>
effectVars == <<hard_drop_triggered, ghost_effect_active, ghost_effect_frames,
                ghost_effect_position, hard_drop_shape, score_effect,
                score_effect_frames, score_effect_position, particles>>
hostVars == <<ghost_shape_enabled, disable_sz_shapes, screen_shake_enabled>>
gameVars == <<state, events, buttons, paused_selected, shake_duration, ghost_y,
              stage>>
vars == <<coreVars, timerVars, effectVars, hostVars, gameVars, ncalls, last,
          probe>>

-----------------------------------------------------------------------------
(* Program constants *)

GRID_WIDTH == 10
GRID_HEIGHT == 20
NUM_COLORS == 7

SHAPES == <<
    << <<1, 1, 1, 1>> >>,
    << <<1, 1>>, <<1, 1>> >>,
    << <<0, 1, 0>>, <<1, 1, 1>> >>,
    << <<1, 0>>, <<1, 0>>, <<1, 1>> >>,
    << <<0, 1>>, <<0, 1>>, <<1, 1>> >>,
    << <<1, 1, 0>>, <<0, 1, 1>> >>,
    << <<0, 1, 1>>, <<1, 1, 0>> >> >>

ShapeI == SHAPES[1]
ShapeO == SHAPES[2]
ShapeT == SHAPES[3]
ShapeL == SHAPES[4]
ShapeJ == SHAPES[5]
ShapeS == SHAPES[6]
ShapeZ == SHAPES[7]

-----------------------------------------------------------------------------
(* Bounds of the model *)

\* engine calls made in one behaviour
MaxCalls == 2

\* outcomes of random.randint(0, len(SHAPE_COLORS) - 1) that are enumerated
DrawColors == {2}

\* outcomes of random.choice(SHAPES) that are enumerated
DrawShapes == {ShapeI, ShapeO, ShapeT, ShapeS}

\* the settings of the host (ghost_shape_enabled, disable_sz_shapes) a session
\* runs under: the defaults of Game.__init__, and both toggled
Settings == {<<TRUE, FALSE>>, <<FALSE, TRUE>>}

\* anchors beyond the grid that check_collision is probed at
ProbeMargin == 1

\* the colours among which the active piece's is drawn, before the model
\* takes over
ActiveColors == {4}

\* what the player has done with the active piece when the model takes over:
\* <<rotations at spawn, soft drops after them>>
Descents == {<<0, 0>>, <<1, 15>>, <<1, 16>>}

\* quarter turns applied in a row to one matrix
MaxTurns == 4

\* iterations of the loop of Game.run; fewer than the 60 frames a particle lives
MaxFrames == 2

\* the batches pygame.event.get() returns: none, one key, a click on a level
\* button, a hard drop or a soft drop with another key queued behind it, and
\* Escape with the keys behind it that choose Restart in the pause menu.
\* An event is <<type, key>> or <<type, level button under the pointer>>.
Batches ==
    {<<>>,
     <<<<"KEYDOWN", "SPACE">>, <<"KEYDOWN", "LEFT">>>>,
     <<<<"KEYDOWN", "DOWN">>, <<"KEYDOWN", "UP">>>>,
     <<<<"KEYDOWN", "ESCAPE">>>>,
     <<<<"KEYDOWN", "RETURN">>>>,
     <<<<"KEYDOWN", "ESCAPE">>, <<"KEYDOWN", "DOWN">>, <<"KEYDOWN", "RETURN">>>>,
     <<<<"MOUSEBUTTONDOWN", 10>>>>}

\* levels a session is constructed with
Levels == {10}

\* levels Tetris(level) is constructed with where the level is what matters:
\* the first and the last of the level buttons, and two beyond them
AnyLevels == {1, 10, 11, 12}

\* the openings, by position, of the sessions at those levels: the empty one
\* and the one in which four rows can be removed at once
LevelOpenings == {1, 5}

\* where the pointer is while the pause menu is drawn, <<entry, pressed>>:
\* off the menu, over Restart, or pressed on Continue, on Restart or on Main
\* Menu
PausePointers ==
    {<<-1, FALSE>>, <<1, FALSE>>, <<0, TRUE>>, <<1, TRUE>>, <<2, TRUE>>}

\* the openings, by position, of the sessions the host loop is run on
HostOpenings == {2}

\* readings of pygame.time.get_ticks() at construction
StartTicks == {3000}

-----------------------------------------------------------------------------
(* Matrices *)

Height(m) == Len(m)
Width(m) == Len(m[1])

\* m[::-1]
Reversed(m) == [i \in 1..Len(m) |-> m[Len(m) + 1 - i]]

\* zip(*m)
Zipped(m) == [i \in 1..Width(m) |-> [j \in 1..Len(m) |-> m[j][i]]]

\* a rotation that reads no more than two of the reversed rows
RotatedTopRows(shape) ==
    Zipped(SubSeq(Reversed(shape), 1, IF Len(shape) < 2 THEN Len(shape) ELSE 2))

\* a mirror image: every row reversed, nothing turned
Mirrored(shape) ==
    [i \in 1..Len(shape) |->
        [j \in 1..Width(shape) |-> shape[i][Width(shape) + 1 - j]]]

\* a transposition: the rows are not reversed first
Transposed(shape) == Zipped(shape)

\* list(zip(*shape[::-1]))
Rotated(shape) == Zipped(Reversed(shape))

\* rotate applied n times
RECURSIVE RotatedTimes(_, _)
RotatedTimes(shape, n) ==
    IF n = 0 THEN shape ELSE RotatedTimes(Rotated(shape), n - 1)

\* the cells (row, col) of a matrix that are set, 0-based
Occupied(shape) ==
    {rc \in (0..Height(shape) - 1) \X (0..Width(shape) - 1) :
        shape[rc[1] + 1][rc[2] + 1] # 0}

-----------------------------------------------------------------------------
(* The grid *)

EmptyRow == [c \in 1..GRID_WIDTH |-> 0]
EmptyGrid == [r \in 1..GRID_HEIGHT |-> EmptyRow]

\* Python's seq[i] for a sequence of n items: the position read (1-based), a
\* negative index counting from the end; 0 when the index is out of range
PyPos(n, i) ==
    IF i >= 0 /\ i < n THEN i + 1
    ELSE IF i < 0 /\ -i <= n THEN n + i + 1
    ELSE 0

\* what a subscript out of range yields in place of a cell
IndexError == -1

\* self.grid[r][c]
GridAt(g, r, c) ==
    LET pr == PyPos(Len(g), r)
    IN  IF pr = 0 THEN IndexError
        ELSE LET pc == PyPos(Len(g[pr]), c)
             IN  IF pc = 0 THEN IndexError ELSE g[pr][pc]

\* lines 163-164: the first three disjuncts of the condition
OutOfBounds(x, y, row, col) ==
    \/ x + col < 0
    \/ x + col >= GRID_WIDTH
    \/ y + row >= GRID_HEIGHT

\* a subscript evaluated whenever the column and the lower bound allow it
ReadsAboveGrid(x, y, row, col) == ~OutOfBounds(x, y, row, col)

\* line 165: `or` and `and` short-circuit, so self.grid is subscripted only
\* when the first three disjuncts are false and y + row >= 0
ReadsGrid(x, y, row, col) ==
    ~OutOfBounds(x, y, row, col) /\ y + row >= 0

\* a grid with a ceiling: a set cell above row 0 collides as well
CeilingCollides(g, x, y, row, col) ==
    \/ OutOfBounds(x, y, row, col)
    \/ y + row < 0
    \/ GridAt(g, y + row, x + col) # 0

\* the condition of lines 163-165 for one set cell of the shape
CellCollides(g, x, y, row, col) ==
    \/ OutOfBounds(x, y, row, col)
    \/ (ReadsGrid(x, y, row, col) /\ GridAt(g, y + row, x + col) # 0)

\* the cells (row, col) of the shape in the order the loops of lines 160-161
\* visit them
ScanOrder(shape) ==
    [k \in 1..Height(shape) * Width(shape) |->
        <<(k - 1) \div Width(shape), (k - 1) % Width(shape)>>]

\* lines 160-167 from the k-th cell on: the value returned, and the grid
\* cells (row, column) subscripted on the way, `reads` being those so far
RECURSIVE ScanFrom(_, _, _, _, _, _)
ScanFrom(g, x, y, shape, k, reads) ==
    IF k > Height(shape) * Width(shape)
    THEN [result |-> FALSE, reads |-> reads]
    ELSE LET row == ScanOrder(shape)[k][1]
             col == ScanOrder(shape)[k][2]
             seen == IF ReadsGrid(x, y, row, col)
                     THEN reads \cup {<<y + row, x + col>>}
                     ELSE reads
         IN  IF shape[row + 1][col + 1] = 0
             THEN ScanFrom(g, x, y, shape, k + 1, reads)
             ELSE IF CellCollides(g, x, y, row, col)
                  THEN [result |-> TRUE, reads |-> seen]
                  ELSE ScanFrom(g, x, y, shape, k + 1, seen)

\* check_collision, lines 158-167: its value
check_collision(g, x, y, shape) ==
    \E row \in 0..Height(shape) - 1 :
        \E col \in 0..Len(shape[row + 1]) - 1 :
            shape[row + 1][col + 1] # 0 /\ CellCollides(g, x, y, row, col)

-----------------------------------------------------------------------------
(* Pieces of lock_shape *)

\* a write of the colour index itself
WriteIndex(g, shape, x, y, color) ==
    LET line(r) ==
            [c \in 1..Len(g[r]) |->
                IF /\ r - 1 - y \in 0..Height(shape) - 1
                   /\ c - 1 - x \in 0..Width(shape) - 1
                   /\ shape[r - y][c - x] # 0
                THEN color
                ELSE g[r][c]]
        rows == [r \in 1..Len(g) |-> SubSeq(line(r), 1, Len(g[r]))]
    IN  SubSeq(rows, 1, Len(g))

\* a write of every cell of the shape's matrix, set or not
WriteBox(g, shape, x, y, color) ==
    LET line(r) ==
            [c \in 1..Len(g[r]) |->
                IF /\ r - 1 - y \in 0..Height(shape) - 1
                   /\ c - 1 - x \in 0..Width(shape) - 1
                THEN color + 1
                ELSE g[r][c]]
        rows == [r \in 1..Len(g) |-> SubSeq(line(r), 1, Len(g[r]))]
    IN  SubSeq(rows, 1, Len(g))

\* lines 209-212: the grid with every set cell of the shape written as
\* color + 1 at (y + row, x + col)
WriteShape(g, shape, x, y, color) ==
    LET line(r) ==
            [c \in 1..Len(g[r]) |->
                IF /\ r - 1 - y \in 0..Height(shape) - 1
                   /\ c - 1 - x \in 0..Width(shape) - 1
                   /\ shape[r - y][c - x] # 0
                THEN color + 1
                ELSE g[r][c]]
        rows == [r \in 1..Len(g) |-> SubSeq(line(r), 1, Len(g[r]))]
    IN  SubSeq(rows, 1, Len(g))

\* any(self.grid[row])
RowTouched(line) == \E c \in 1..Len(line) : line[c] # 0

\* all(self.grid[row])
RowFull(line) == \A c \in 1..Len(line) : line[c] # 0

\* the full row emptied where it is, nothing shifted
BlankRow(g, row) ==
    SubSeq(g, 1, row) \o <<EmptyRow>> \o SubSeq(g, row + 2, Len(g))

\* del self.grid[row]; self.grid.insert(0, [0] * GRID_WIDTH)
DeleteAndInsert(g, row) ==
    <<EmptyRow>> \o SubSeq(g, 1, row) \o SubSeq(g, row + 2, Len(g))

\* a loop that stops at the first full row it removes
RECURSIVE ClearFirst(_, _, _)
ClearFirst(g, row, lines) ==
    IF row >= GRID_HEIGHT THEN [grid |-> g, lines |-> lines]
    ELSE IF RowFull(g[row + 1])
         THEN [grid |-> DeleteAndInsert(g, row), lines |-> lines + 1]
         ELSE ClearFirst(g, row + 1, lines)

\* a loop that removes the row above a full row along with it
RECURSIVE ClearPairs(_, _, _)
ClearPairs(g, row, lines) ==
    IF row >= GRID_HEIGHT THEN [grid |-> g, lines |-> lines]
    ELSE IF RowFull(g[row + 1])
         THEN ClearPairs(DeleteAndInsert(DeleteAndInsert(g, row), row),
                         row + 1, lines + 2)
         ELSE ClearPairs(g, row + 1, lines)

\* lines 214-219: the loop over range(len(self.grid)) from `row` on, with
\* `lines` rows removed so far
RECURSIVE ClearFrom(_, _, _)
ClearFrom(g, row, lines) ==
    IF row >= GRID_HEIGHT THEN [grid |-> g, lines |-> lines]
    ELSE IF RowFull(g[row + 1])
         THEN ClearFrom(DeleteAndInsert(g, row), row + 1, lines + 1)
         ELSE ClearFrom(g, row + 1, lines)

ClearLines(g) == ClearFrom(g, 0, 0)

\* lines 224-232: where the particles appended start and the colour they
\* have: every cell of g that is set, g being self.grid when line 224 is
\* reached, and the colour SHAPE_COLORS[self.grid[y][x] - 1].  How many
\* particles start at a cell (5 to 8), their size and speed are left out.
Burst(g) ==
    {<<rc[1], rc[2], g[rc[1] + 1][rc[2] + 1] - 1>> :
        rc \in {rc \in (0..Len(g) - 1) \X (0..GRID_WIDTH - 1) :
                   g[rc[1] + 1][rc[2] + 1] # 0}}

\* a score with the wrong sign
Penalty(lines) == 0 - (10 * lines) * lines

\* a score that grows with the rows and not with their square
LinearScore(lines) == 10 * lines

\* lines 233-235: base_score * multiplier
LineScore(lines) == (10 * lines) * lines

\* line 153
SpawnX(shape) == (GRID_WIDTH \div 2) - (Width(shape) \div 2)

\* an interval without its lower limit
FallSpeedUnclamped(lv) == 1000 - (lv - 1) * 100

\* line 105
FallSpeed(lv) ==
    LET v == 1000 - (lv - 1) * 100 IN IF v > 50 THEN v ELSE 50

\* lines 192-194 (and 197-198): the row reached by stepping down from y
\* while the next row does not collide
RECURSIVE GhostY(_, _, _, _)
GhostY(g, x, y, shape) ==
    IF ~check_collision(g, x, y + 1, shape)
    THEN GhostY(g, x, y + 1, shape)
    ELSE y

\* choose_shape: the shapes random.choice can return
ChooseShape(disable) ==
    IF disable
    THEN {SHAPES[i + 1] : i \in (0..Len(SHAPES) - 1) \ {5, 6}}
    ELSE {SHAPES[i + 1] : i \in 0..Len(SHAPES) - 1}

\* choose_next_color: the values random.randint(0, 6) can return
ChooseNextColor == 0..NUM_COLORS - 1

-----------------------------------------------------------------------------
(* The randomizer and the clock, as far as the model enumerates them *)

DrawShape(disable) == ChooseShape(disable) \cap DrawShapes
DrawColor == ChooseNextColor \cap DrawColors

\* readings of pygame.time.get_ticks() in update, given the stored last_fall:
\* no time passed, exactly the fall interval, just over it, several intervals
Readings(lf, speed) == {lf, lf + speed, lf + speed + 1, lf + 3 * speed}

\* readings that are not after the stored last_fall: the same, just before,
\* and long before
StaleReadings(lf, speed) == {lf, lf - 1, lf - 2 * speed}

-----------------------------------------------------------------------------
(* Engine operations.  The lower-case definitions are the methods of class *)
(* Tetris; none of them looks at game_over.                                *)

\* `last` records the call just made: the method, its argument (dx of move,
\* the clock reading of update, else 0), whether it took effect (the move or
\* rotation was accepted, the update dropped) and the rows its lock cleared
\* (-1 when it did not lock)
NoCall == [op |-> "none", arg |-> 0, applied |-> FALSE, lines |-> -1]

Called(op, arg, applied, lines) ==
    [op |-> op, arg |-> arg, applied |-> applied, lines |-> lines]

\* a spawn that does not test the new piece against the grid
SpawnUnchecked(g) ==
    /\ current_shape' = next_shape
    /\ shape_color' = next_color
    /\ shape_x' = SpawnX(next_shape)
    /\ shape_y' = 0
    /\ game_over' = game_over
    /\ next_shape' \in DrawShape(disable_sz_shapes)
    /\ next_color' \in DrawColor

\* a spawn that centres the piece by its whole width
SpawnOffCentre(g) ==
    /\ current_shape' = next_shape
    /\ shape_color' = next_color
    /\ shape_x' = (GRID_WIDTH \div 2) - Width(next_shape)
    /\ shape_y' = 0
    /\ game_over' =
           IF check_collision(g, (GRID_WIDTH \div 2) - Width(next_shape), 0,
                              next_shape)
           THEN TRUE
           ELSE game_over
    /\ next_shape' \in DrawShape(disable_sz_shapes)
    /\ next_color' \in DrawColor

\* a spawn that stores the outcome of its test, whichever it is
SpawnResets(g) ==
    /\ current_shape' = next_shape
    /\ shape_color' = next_color
    /\ shape_x' = SpawnX(next_shape)
    /\ shape_y' = 0
    /\ game_over' = check_collision(g, SpawnX(next_shape), 0, next_shape)
    /\ next_shape' \in DrawShape(disable_sz_shapes)
    /\ next_color' \in DrawColor

\* a spawn that tests the new piece one row below its spawn position
SpawnTestedBelow(g) ==
    /\ current_shape' = next_shape
    /\ shape_color' = next_color
    /\ shape_x' = SpawnX(next_shape)
    /\ shape_y' = 0
    /\ game_over' = IF check_collision(g, SpawnX(next_shape), 1, next_shape)
                    THEN TRUE
                    ELSE game_over
    /\ next_shape' \in DrawShape(disable_sz_shapes)
    /\ next_color' \in DrawColor

\* new_shape, lines 147-156, on the grid g that lock_shape left
new_shape(g) ==
    /\ current_shape' = next_shape
    /\ shape_color' = next_color
    /\ shape_x' = SpawnX(next_shape)
    /\ shape_y' = 0
    /\ game_over' = IF check_collision(g, SpawnX(next_shape), 0, next_shape)
                    THEN TRUE
                    ELSE game_over
    /\ next_shape' \in DrawShape(disable_sz_shapes)
    /\ next_color' \in DrawColor

\* lock_shape, lines 207-242, with the piece at row y, in call (op, arg); line
\* 243 is left to the caller, which is where hard_drop overrides it
lock_shape(y, op, arg) ==
    LET written == WriteShape(grid, current_shape, shape_x, y, shape_color)
        cleared == ClearLines(written)
    IN  /\ grid' = cleared.grid
        /\ IF cleared.lines > 0
           THEN /\ particles' = particles \cup Burst(cleared.grid)
                /\ score' = score + LineScore(cleared.lines)
                /\ score_effect' = LineScore(cleared.lines)
                /\ score_effect_frames' = 45
                /\ score_effect_position' = <<shape_x, y>>
           ELSE UNCHANGED <<particles, score, score_effect,
                            score_effect_frames, score_effect_position>>
        /\ last' = Called(op, arg, TRUE, cleared.lines)
        /\ new_shape(grid')

\* rotate, lines 169-173
rotate ==
    /\ LET rotated == Rotated(current_shape)
           ok == ~check_collision(grid, shape_x, shape_y, rotated)
       IN  /\ current_shape' = IF ok THEN rotated ELSE current_shape
           /\ last' = Called("rotate", 0, ok, -1)
    /\ UNCHANGED <<grid, shape_color, next_shape, next_color, shape_x, shape_y,
                   score, game_over>>
    /\ UNCHANGED <<timerVars, effectVars, hostVars, probe>>

\* a move that does not test the shifted placement
MoveUnchecked(dx) ==
    /\ shape_x' = shape_x + dx
    /\ last' = Called("move", dx, TRUE, -1)
    /\ UNCHANGED <<grid, current_shape, shape_color, next_shape, next_color,
                   shape_y, score, game_over>>
    /\ UNCHANGED <<timerVars, effectVars, hostVars, probe>>

\* move, lines 175-178
move(dx) ==
    /\ LET ok == ~check_collision(grid, shape_x + dx, shape_y, current_shape)
       IN  /\ shape_x' = IF ok THEN shape_x + dx ELSE shape_x
           /\ last' = Called("move", dx, ok, -1)
    /\ UNCHANGED <<grid, current_shape, shape_color, next_shape, next_color,
                   shape_y, score, game_over>>
    /\ UNCHANGED <<timerVars, effectVars, hostVars, probe>>

\* a drop that leaves the piece where it is when it cannot move down
NeverLocks(op, arg) ==
    /\ shape_y' =
           IF check_collision(grid, shape_x, shape_y + 1, current_shape)
           THEN shape_y
           ELSE shape_y + 1
    /\ last' = Called(op, arg, shape_y' # shape_y, -1)
    /\ UNCHANGED <<grid, current_shape, shape_color, next_shape, next_color,
                   shape_x, score, game_over>>
    /\ UNCHANGED effectVars

\* a drop that locks the piece one row before it has to
EagerLock(op, arg) ==
    IF \/ check_collision(grid, shape_x, shape_y + 1, current_shape)
       \/ check_collision(grid, shape_x, shape_y + 2, current_shape)
    THEN /\ lock_shape(shape_y, op, arg)
         /\ hard_drop_triggered' = FALSE
         /\ UNCHANGED <<ghost_effect_active, ghost_effect_frames,
                        ghost_effect_position, hard_drop_shape>>
    ELSE /\ shape_y' = shape_y + 1
         /\ last' = Called(op, arg, TRUE, -1)
         /\ UNCHANGED <<grid, current_shape, shape_color, next_shape,
                        next_color, shape_x, score, game_over>>
         /\ UNCHANGED effectVars

\* drop, lines 180-185, in call (op, arg): the player's, or update's
drop(op, arg) ==
    IF check_collision(grid, shape_x, shape_y + 1, current_shape)
    THEN /\ lock_shape(shape_y, op, arg)
         /\ hard_drop_triggered' = FALSE
         /\ UNCHANGED <<ghost_effect_active, ghost_effect_frames,
                        ghost_effect_position, hard_drop_shape>>
    ELSE /\ shape_y' = shape_y + 1
         /\ last' = Called(op, arg, TRUE, -1)
         /\ UNCHANGED <<grid, current_shape, shape_color, next_shape,
                        next_color, shape_x, score, game_over>>
         /\ UNCHANGED effectVars

\* a fall that stops one row above the landing row
OneRowShort(g, x, y, shape) ==
    IF GhostY(g, x, y, shape) > y THEN GhostY(g, x, y, shape) - 1 ELSE y

\* a landing row taken from the ghost effect while one is showing
StaleGhostRow(g, x, y, shape) ==
    IF ghost_effect_active THEN ghost_effect_position[2] ELSE GhostY(g, x, y, shape)

\* lines 197-198: the row at which hard_drop locks the piece
LandingRow(g, x, y, shape) == GhostY(g, x, y, shape)

\* hard_drop, lines 187-205
hard_drop ==
    /\ hard_drop_shape' = current_shape
    /\ ghost_effect_position' =
           <<shape_x, GhostY(grid, shape_x, shape_y, current_shape)>>
    /\ lock_shape(LandingRow(grid, shape_x, shape_y, current_shape),
                  "hard_drop", 0)
    /\ hard_drop_triggered' = TRUE
    /\ IF ghost_shape_enabled
       THEN ghost_effect_active' = TRUE /\ ghost_effect_frames' = 30
       ELSE UNCHANGED <<ghost_effect_active, ghost_effect_frames>>
    /\ UNCHANGED <<timerVars, hostVars, probe>>

\* a tick that compares the distance between the two readings
UpdateAbsolute(now) ==
    /\ IF now - last_fall > fall_speed \/ last_fall - now > fall_speed
       THEN /\ drop("update", now)
            /\ last_fall' = now
       ELSE /\ last' = Called("update", now, FALSE, -1)
            /\ UNCHANGED <<coreVars, effectVars, last_fall>>
    /\ UNCHANGED <<level, fall_speed, hostVars, probe>>

\* a tick that already drops when exactly the fall interval has passed
UpdateAtInterval(now) ==
    /\ IF now - last_fall >= fall_speed
       THEN /\ drop("update", now)
            /\ last_fall' = now
       ELSE /\ last' = Called("update", now, FALSE, -1)
            /\ UNCHANGED <<coreVars, effectVars, last_fall>>
    /\ UNCHANGED <<level, fall_speed, hostVars, probe>>

\* update, lines 245-249, with `now` the reading of pygame.time.get_ticks()
update(now) ==
    /\ IF now - last_fall > fall_speed
       THEN /\ drop("update", now)
            /\ last_fall' = now
       ELSE /\ last' = Called("update", now, FALSE, -1)
            /\ UNCHANGED <<coreVars, effectVars, last_fall>>
    /\ UNCHANGED <<level, fall_speed, hostVars, probe>>

\* one more engine call, while the behaviour has calls left
Call == ncalls < MaxCalls /\ ncalls' = ncalls + 1 /\ UNCHANGED gameVars

Rotate == Call /\ rotate

Move(dx) == Call /\ move(dx)

Drop == Call /\ drop("drop", 0) /\ UNCHANGED <<timerVars, hostVars, probe>>

HardDrop == Call /\ hard_drop

Update(now) == Call /\ update(now)

-----------------------------------------------------------------------------
(* The drop preview *)

\* a preview at the lowest row, from y down, at which the piece fits
PreviewFromFloor(g, x, y, shape) ==
    LET free == {r \in y..GRID_HEIGHT - 1 : ~check_collision(g, x, r, shape)}
    IN  IF free = {} THEN y ELSE CHOOSE r \in free : \A q \in free : q <= r

\* lines 399-401: ghost_y when the loop ends
PreviewRow(g, x, y, shape) == GhostY(g, x, y, shape)

\* Game.draw_current_shape, lines 394-401: the ghost is computed when the
\* setting is on; what is painted is not modelled
DrawCurrentShape ==
    /\ ghost_y' = IF ghost_shape_enabled
                  THEN PreviewRow(grid, shape_x, shape_y, current_shape)
                  ELSE ghost_y
    /\ UNCHANGED <<state, events, buttons, paused_selected, shake_duration,
                   stage>>
    /\ UNCHANGED <<coreVars, timerVars, effectVars, hostVars, ncalls, last,
                   probe>>

-----------------------------------------------------------------------------
(* The host loop: Game.run, Game.handle_events and the draw methods *)

KeyDown(key) == <<"KEYDOWN", key>>

\* a click with the pointer on level button n and on no arrow button
Click(n) == <<"MOUSEBUTTONDOWN", n>>

\* a test of the state alone
PlayingUnchecked == state = "GAME"

\* line 616
Playing == state = "GAME" /\ ~game_over

\* the event at the head of the batch is done with
Handled ==
    /\ events' = Tail(events)
    /\ UNCHANGED <<ghost_y, stage, ncalls>>

\* Tetris(level) and the rest of Game.start_game, lines 948-954, at the
\* clock reading `now`: __init__ draws the active piece with self.game None
StartGame(lv, now) ==
    /\ grid' = EmptyGrid
    /\ current_shape' \in DrawShape(FALSE)
    /\ shape_color' \in ChooseNextColor \cap ActiveColors
    /\ shape_x' = SpawnX(current_shape')
    /\ shape_y' = 0
    /\ game_over' =
           check_collision(EmptyGrid, SpawnX(current_shape'), 0, current_shape')
    /\ next_shape' \in DrawShape(disable_sz_shapes)
    /\ next_color' \in DrawColor
    /\ score' = 0
    /\ level' = lv
    /\ last_fall' = now
    /\ fall_speed' = FallSpeed(lv)
    /\ hard_drop_triggered' = FALSE
    /\ ghost_effect_active' = FALSE
    /\ ghost_effect_frames' = 0
    /\ ghost_effect_position' = <<0, 0>>
    /\ hard_drop_shape' = <<>>
    /\ score_effect' = 0
    /\ score_effect_frames' = 0
    /\ score_effect_position' = <<0, 0>>
    /\ particles' = {}
    /\ state' = "GAME"
    /\ last' = Called("start_game", lv, TRUE, -1)
    /\ UNCHANGED <<hostVars, probe>>

\* nothing of the session changes
SessionKept == UNCHANGED <<coreVars, timerVars, effectVars, hostVars, last, probe>>

\* lines 614-630: a key while the session is played
GameKey(key) ==
    CASE key = "LEFT" ->
           move(-1) /\ UNCHANGED <<state, buttons, paused_selected, shake_duration>>
      [] key = "RIGHT" ->
           move(1) /\ UNCHANGED <<state, buttons, paused_selected, shake_duration>>
      [] key = "UP" ->
           rotate /\ UNCHANGED <<state, buttons, paused_selected, shake_duration>>
      [] key = "DOWN" ->
           /\ drop("drop", 0)
           /\ UNCHANGED <<timerVars, hostVars, probe>>
           /\ UNCHANGED <<state, buttons, paused_selected, shake_duration>>
      [] key = "SPACE" ->
           /\ hard_drop
           /\ shake_duration' = IF screen_shake_enabled THEN 10 ELSE 0
           /\ UNCHANGED <<state, buttons, paused_selected>>
      [] key = "ESCAPE" ->
           /\ state' = "PAUSED"
           /\ SessionKept
           /\ UNCHANGED <<buttons, paused_selected, shake_duration>>
      [] OTHER ->
           SessionKept /\ UNCHANGED <<state, buttons, paused_selected, shake_duration>>

\* lines 632-647: a key in the pause menu, at the clock reading `now`
PausedKey(key, now) ==
    CASE key = "UP" ->
           /\ paused_selected' = (paused_selected - 1) % 3
           /\ SessionKept
           /\ UNCHANGED <<state, buttons, shake_duration>>
      [] key = "DOWN" ->
           /\ paused_selected' = (paused_selected + 1) % 3
           /\ SessionKept
           /\ UNCHANGED <<state, buttons, shake_duration>>
      [] key = "RETURN" /\ paused_selected = 0 ->
           /\ state' = "GAME"
           /\ SessionKept
           /\ UNCHANGED <<buttons, paused_selected, shake_duration>>
      [] key = "RETURN" /\ paused_selected = 1 ->
           /\ StartGame(level, now)
           /\ UNCHANGED <<buttons, paused_selected, shake_duration>>
      [] key = "RETURN" /\ paused_selected = 2 ->
           /\ state' = "MAIN_MENU"
           /\ SessionKept
           /\ UNCHANGED <<buttons, paused_selected, shake_duration>>
      [] key = "ESCAPE" ->
           /\ state' = "GAME"
           /\ SessionKept
           /\ UNCHANGED <<buttons, paused_selected, shake_duration>>
      [] OTHER ->
           SessionKept /\ UNCHANGED <<state, buttons, paused_selected, shake_duration>>

\* lines 613-657: one KEYDOWN event
HandleKey(key, now) ==
    IF Playing THEN GameKey(key)
    ELSE IF state = "PAUSED" THEN PausedKey(key, now)
    ELSE /\ state' =
                IF state \in {"LEVEL_SELECT", "OPTIONS"} /\ key = "ESCAPE"
                THEN "MAIN_MENU"
                ELSE IF state = "GAME" /\ game_over /\ key = "SPACE"
                THEN "LEVEL_SELECT"
                ELSE state
         /\ SessionKept
         /\ UNCHANGED <<buttons, paused_selected, shake_duration>>

\* lines 602-611: one MOUSEBUTTONDOWN event on level button n; it is the
\* button of self.buttons under the pointer only while self.buttons is the
\* list draw_levels left
HandleClick(n, now) ==
    IF buttons = "level_buttons"
    THEN StartGame(n, now) /\ UNCHANGED <<buttons, paused_selected, shake_duration>>
    ELSE SessionKept /\ UNCHANGED <<state, buttons, paused_selected, shake_duration>>

\* the clock readings of a frame: the fall interval after last_fall, and one
\* millisecond later
FrameReadings(lf, speed) == {lf + speed, lf + speed + 1}

\* the clock reading when a session is constructed during one
StartReadings(lf) == {lf + 1}

\* one pass of the loop of line 588
HandleEvent ==
    /\ stage = "events"
    /\ events # <<>>
    /\ Handled
    /\ \E now \in StartReadings(last_fall) :
           IF Head(events)[1] = "KEYDOWN"
           THEN HandleKey(Head(events)[2], now)
           ELSE HandleClick(Head(events)[2], now)

\* a frame that updates the session whatever the state of the host
FrameAnyState ==
    /\ stage = "events"
    /\ events = <<>>
    /\ stage' = "draw"
    /\ IF ~game_over
       THEN \E now \in FrameReadings(last_fall, fall_speed) : update(now)
       ELSE SessionKept
    /\ UNCHANGED <<state, events, buttons, paused_selected, shake_duration,
                   ghost_y, ncalls>>

\* Game.run, lines 1077-1080, once the events are handled: update, and
\* update_particles, which ends no particle's life in the frames modelled
Frame ==
    /\ stage = "events"
    /\ events = <<>>
    /\ stage' = "draw"
    /\ IF state = "GAME" /\ ~game_over
       THEN \E now \in FrameReadings(last_fall, fall_speed) : update(now)
       ELSE SessionKept
    /\ UNCHANGED <<state, events, buttons, paused_selected, shake_duration,
                   ghost_y, ncalls>>

\* Game.draw_game, lines 984-1026, for what it writes: the shake (lines
\* 1053-1064), the ghost (lines 398-401), the score popup (line 913) and the
\* ghost effect (lines 1007-1010)
DrawGame ==
    /\ shake_duration' =
           IF ~screen_shake_enabled THEN shake_duration
           ELSE IF shake_duration > 0 THEN shake_duration - 1 ELSE 0
    /\ ghost_y' = IF ghost_shape_enabled
                  THEN PreviewRow(grid, shape_x, shape_y, current_shape)
                  ELSE ghost_y
    /\ score_effect_frames' =
           IF score_effect_frames > 0 THEN score_effect_frames - 1
           ELSE score_effect_frames
    /\ ghost_effect_frames' =
           IF ghost_effect_active THEN ghost_effect_frames - 1
           ELSE ghost_effect_frames
    /\ ghost_effect_active' = (ghost_effect_active /\ ghost_effect_frames' > 0)
    /\ UNCHANGED <<hard_drop_triggered, ghost_effect_position, hard_drop_shape,
                   score_effect, score_effect_position, particles>>
    /\ UNCHANGED <<coreVars, timerVars, hostVars, last, probe>>
    /\ UNCHANGED <<state, buttons, paused_selected>>

\* Game.draw_paused_menu, lines 729-768, with the pointer over entry `over`
\* of the menu (-1: over none) and the left button pressed or not
DrawPausedMenu(over, pressed, now) ==
    /\ paused_selected' = IF over >= 0 THEN over ELSE paused_selected
    /\ IF over = 1 /\ pressed
       THEN StartGame(level, now)
       ELSE /\ state' = IF over = 0 /\ pressed THEN "GAME"
                        ELSE IF over = 2 /\ pressed THEN "MAIN_MENU"
                        ELSE state
            /\ SessionKept
    /\ UNCHANGED <<buttons, shake_duration, ghost_y>>

\* draw_main_menu (line 724), draw_levels (line 779), draw_options (line 844)
DrawMenu ==
    /\ buttons' = CASE state = "MAIN_MENU" -> "main_menu_buttons"
                     [] state = "LEVEL_SELECT" -> "level_buttons"
                     [] OTHER -> "options_buttons"
    /\ SessionKept
    /\ UNCHANGED <<state, paused_selected, shake_duration, ghost_y>>

\* Game.run, lines 1071-1083: the screen of the state is drawn, and the loop
\* starts over with the batch pygame.event.get() returns
Draw ==
    /\ stage = "draw"
    /\ ncalls < MaxFrames
    /\ ncalls' = ncalls + 1
    /\ stage' = "events"
    /\ events' \in Batches
    /\ CASE state = "GAME" -> DrawGame
         [] state = "PAUSED" ->
              \E pointer \in PausePointers :
                  \E now \in StartReadings(last_fall) :
                      DrawPausedMenu(pointer[1], pointer[2], now)
         [] OTHER -> DrawMenu

-----------------------------------------------------------------------------
(* check_collision called on its own *)

NoProbe ==
    [x |-> 0, y |-> 0, shape |-> <<>>, done |-> FALSE, result |-> FALSE,
     reads |-> {}]

\* the seven shapes in every orientation rotate can give them
Orientations == {RotatedTimes(SHAPES[i], n) : i \in 1..Len(SHAPES), n \in 0..3}

\* the anchors probed: every anchor at which some cell of a shape is in the
\* grid, and ProbeMargin more on each side
ProbeXs == (-3 - ProbeMargin)..(GRID_WIDTH - 1 + ProbeMargin)
ProbeYs == (-3 - ProbeMargin)..(GRID_HEIGHT - 1 + ProbeMargin)

\* check_collision(x, y, shape) on the grid as it is
CheckCollision ==
    /\ probe.shape # <<>>
    /\ ~probe.done
    /\ LET scan == ScanFrom(grid, probe.x, probe.y, probe.shape, 1, {})
       IN  probe' = [probe EXCEPT !.done = TRUE,
                                  !.result = scan.result,
                                  !.reads = scan.reads]
    /\ UNCHANGED <<coreVars, timerVars, effectVars, hostVars, gameVars,
                   ncalls, last>>

-----------------------------------------------------------------------------
(* Sessions *)

\* A placement is one piece of an opening: the shape, rotated `rot` times at
\* spawn, moved to column x along the top rows and hard-dropped.
Placement(shape, rot, x, color) ==
    [shape |-> shape, rot |-> rot, x |-> x, color |-> color]

\* n copies of one placement
RECURSIVE Repeat(_, _)
Repeat(p, n) == IF n = 0 THEN <<>> ELSE <<p>> \o Repeat(p, n - 1)

\* n vertical I pieces hard-dropped into column x
Column(x, n, color) == Repeat(Placement(ShapeI, 1, x, color), n)

\* columns 0, 1, 2 and 6 filled 16 high; column 3 is left open
Walls ==
    Column(0, 4, 0) \o Column(1, 4, 1) \o Column(2, 4, 2) \o Column(6, 4, 6)

\* column 7 filled to the top, then nine O pieces dropped from spawn into
\* columns 4 and 5, which leaves rows 0 and 1 free above them
Tower == Column(7, 5, 0) \o Repeat(Placement(ShapeO, 0, 4, 5), 9)

\* columns 0, 1, 2 and 9, 8, 7, 6 filled to the top, in that order: columns 3,
\* 4 and 5 stay empty, and of the shapes drawn only an O piece still spawns
\* without colliding
Shaft ==
    Column(0, 5, 0) \o Column(1, 5, 1) \o Column(2, 5, 2) \o Column(9, 5, 3)
        \o Column(8, 5, 4) \o Column(7, 5, 5) \o Column(6, 5, 6)

\* The openings: the empty one (a session just constructed), and four that
\* build the walls, close columns 8 and 9 so that column 9 is 1, 2, 3 or 4
\* cells high while column 8 covers the bottom four rows, and end with the
\* tower.  In each of the four every row from row 4 down is full except for
\* column 3 and, above its height, column 9.
Openings == <<
    <<>>,
    Walls \o <<Placement(ShapeL, 0, 8, 3)>> \o Column(8, 3, 1) \o Tower,
    Walls \o <<Placement(ShapeO, 0, 8, 1)>> \o Column(8, 3, 2) \o Tower,
    Walls \o <<Placement(ShapeJ, 0, 8, 4)>> \o Column(8, 3, 3) \o Tower,
    Walls \o Column(9, 1, 5) \o Column(8, 4, 4) \o Tower,
    Shaft >>

\* the shape of placement p as it is dropped
Dropped(p) == RotatedTimes(p.shape, p.rot)

\* Placement p can be played on g: the piece spawns (line 155), each rotation
\* at spawn is accepted (line 172) and so is each move along row 0 from the
\* spawn column to column p.x (line 177).
Playable(g, p) ==
    LET x0 == SpawnX(p.shape)
        lo == IF p.x < x0 THEN p.x ELSE x0
        hi == IF p.x < x0 THEN x0 ELSE p.x
    IN  /\ \A n \in 0..p.rot : ~check_collision(g, x0, 0, RotatedTimes(p.shape, n))
        /\ \A x \in lo..hi : ~check_collision(g, x, 0, Dropped(p))

\* what hard_drop does to the grid with placement p: lines 197-199, 209-219
Place(g, p) ==
    LET y == GhostY(g, p.x, 0, Dropped(p))
    IN  ClearLines(WriteShape(g, Dropped(p), p.x, y, p.color)).grid

\* the grid after placements k, k + 1, ... of the opening are played on g
RECURSIVE PlayFrom(_, _, _)
PlayFrom(g, opening, k) ==
    IF k > Len(opening) THEN g
    ELSE LET placed == Place(g, opening[k])
         IN  IF Len(placed) = GRID_HEIGHT
             THEN PlayFrom(placed, opening, k + 1)
             ELSE placed

\* every placement k, k + 1, ... of the opening can be played in its turn,
\* starting on g
RECURSIVE AllPlayableFrom(_, _, _)
AllPlayableFrom(g, opening, k) ==
    IF k > Len(opening) THEN TRUE
    ELSE LET placed == Place(g, opening[k])
         IN  /\ Playable(g, opening[k])
             /\ Len(placed) = GRID_HEIGHT
             /\ AllPlayableFrom(placed, opening, k + 1)

AllPlayable(opening) == AllPlayableFrom(EmptyGrid, opening, 1)

\* the grid after an opening, from the empty grid of line 93
Played(opening) == PlayFrom(EmptyGrid, opening, 1)

\* the openings a player can play, by their position in Openings
PlayableOpenings == {k \in 1..Len(Openings) : AllPlayable(Openings[k])}

\* The active piece can be where a descent puts it: it spawns without
\* colliding (line 155), each of `rot` rotations at spawn is accepted (line
\* 172) and each of `rows` soft drops moves it (line 183 is false).
Descends(g, piece, rot, rows) ==
    /\ \A n \in 0..rot :
           ~check_collision(g, SpawnX(piece), 0, RotatedTimes(piece, n))
    /\ \A y \in 1..rows :
           ~check_collision(g, SpawnX(piece), y, RotatedTimes(piece, rot))

\* The host while a session started from a level button is played: the state
\* that line 954 sets, the button list draw_levels left (line 779), the entry
\* of the pause menu as constructed (line 285), no event polled, no shake and
\* nothing drawn yet.
InGame ==
    /\ state = "GAME"
    /\ events = <<>>
    /\ buttons = "level_buttons"
    /\ paused_selected = 0
    /\ shake_duration = 0
    /\ ghost_y = -1
    /\ stage = "events"

\* Tetris.__init__ (lines 89-118) followed by the rest of Game.start_game
\* (lines 950-954), then the (playable) opening played with hard drops only
\* and the active piece taken through a descent.  In __init__ self.game is
\* still None, so the first active piece is chosen among all shapes;
\* start_game chooses the next shape again.  The level is one of `levels`.
InitAt(opening, levels) ==
    /\ grid = Played(opening)
    /\ IF opening = <<>>
       THEN /\ hard_drop_triggered = FALSE
            /\ ghost_effect_active = FALSE
            /\ ghost_effect_frames = 0
            /\ ghost_effect_position = <<0, 0>>
            /\ hard_drop_shape = <<>>
       ELSE LET p == opening[Len(opening)]
                before == Played(SubSeq(opening, 1, Len(opening) - 1))
            IN  /\ hard_drop_triggered = TRUE
                /\ ghost_effect_active = ghost_shape_enabled
                /\ ghost_effect_frames = IF ghost_shape_enabled THEN 30 ELSE 0
                /\ ghost_effect_position =
                       <<p.x, GhostY(before, p.x, 0, Dropped(p))>>
                /\ hard_drop_shape = Dropped(p)
    /\ score_effect = 0
    /\ score_effect_frames = 0
    /\ score_effect_position = <<0, 0>>
    /\ particles = {}
    /\ \E piece \in DrawShape(opening # <<>> /\ disable_sz_shapes) :
           \E descent \in Descents :
               /\ Descends(grid, piece, descent[1], descent[2])
               /\ current_shape = RotatedTimes(piece, descent[1])
               /\ shape_x = SpawnX(piece)
               /\ shape_y = descent[2]
    /\ shape_color \in ChooseNextColor \cap ActiveColors
    /\ next_shape \in DrawShape(disable_sz_shapes)
    /\ next_color \in DrawColor
    /\ score = 0
    /\ level \in levels
    /\ last_fall \in StartTicks
    /\ fall_speed = FallSpeed(level)
    /\ game_over = FALSE
    /\ InGame
    /\ ncalls = 0
    /\ last = NoCall

\* a session at one of the levels of the level buttons that are modelled
InitAfter(opening) == InitAt(opening, Levels)

Init ==
    /\ \E setting \in Settings :
           ghost_shape_enabled = setting[1] /\ disable_sz_shapes = setting[2]
    /\ screen_shake_enabled = TRUE
    /\ \E k \in PlayableOpenings : InitAfter(Openings[k])
    /\ probe = NoProbe

Next ==
    \/ Rotate
    \/ \E dx \in {-1, 1} : Move(dx)
    \/ Drop
    \/ HardDrop
    \/ \E now \in Readings(last_fall, fall_speed) : Update(now)

Spec == Init /\ [][Next]_vars

\* The player only moves and rotates the piece, any number of times.
Turn == rotate /\ UNCHANGED <<gameVars, ncalls>>

Shift(dx) == move(dx) /\ UNCHANGED <<gameVars, ncalls>>

NextMoves ==
    \/ Turn
    \/ \E dx \in {-1, 1} : Shift(dx)

SpecMoves == Init /\ [][NextMoves]_vars

\* check_collision is called once, on the grid of a session with an I piece
\* active and the default settings, at any probed anchor and orientation.
InitCollision ==
    /\ ghost_shape_enabled = TRUE
    /\ disable_sz_shapes = FALSE
    /\ screen_shake_enabled = TRUE
    /\ \E k \in PlayableOpenings : InitAfter(Openings[k])
    /\ current_shape = ShapeI
    /\ next_shape = ShapeI
    /\ \E x \in ProbeXs, y \in ProbeYs, shape \in Orientations :
           probe = [NoProbe EXCEPT !.x = x, !.y = y, !.shape = shape]

SpecCollision == InitCollision /\ [][CheckCollision]_vars

\* the tower with one more I piece hard-dropped from spawn: it comes to rest
\* across the tower in row 1, over columns 3 and 6, which are empty below it
Overhang == Tower \o <<Placement(ShapeI, 0, 3, 6)>>

\* the grids the ghost is drawn on
GhostOpenings == {opening \in {Overhang} : AllPlayable(opening)}

\* Sessions in which the piece is moved and turned any number of times,
\* hard-dropped, and drawn with its ghost after any of these.
InitGhost ==
    /\ \E setting \in Settings :
           ghost_shape_enabled = setting[1] /\ disable_sz_shapes = setting[2]
    /\ screen_shake_enabled = TRUE
    /\ \E opening \in GhostOpenings : InitAfter(opening)
    /\ probe = NoProbe

\* ghost_y is a local of draw_current_shape: the next call finds none
Undrawn ==
    /\ ghost_y' = -1
    /\ UNCHANGED <<state, events, buttons, paused_selected, shake_duration,
                   stage>>

TurnDrawn == rotate /\ Undrawn /\ UNCHANGED ncalls

ShiftDrawn(dx) == move(dx) /\ Undrawn /\ UNCHANGED ncalls

HardDropDrawn ==
    /\ ncalls < MaxCalls
    /\ ncalls' = ncalls + 1
    /\ hard_drop
    /\ Undrawn

NextGhost ==
    \/ TurnDrawn
    \/ \E dx \in {-1, 1} : ShiftDrawn(dx)
    \/ HardDropDrawn
    \/ DrawCurrentShape

SpecGhost == InitGhost /\ [][NextGhost]_vars

\* the walls, an O piece and on it a T piece standing on its side in columns
\* 8 and 9, then the tower: rows 16, 18 and 19 lack column 3 only, row 17
\* lacks column 9 as well
Gapped ==
    Walls \o <<Placement(ShapeO, 0, 8, 1), Placement(ShapeT, 1, 8, 2)>> \o Tower

\* the grids rows are removed from: with three rows to remove, two of them
\* next to each other and one apart
ClearOpenings == {opening \in {Gapped} : AllPlayable(opening)}

\* Sessions on these grids, under the calls of Next.
InitClear ==
    /\ \E setting \in Settings :
           ghost_shape_enabled = setting[1] /\ disable_sz_shapes = setting[2]
    /\ screen_shake_enabled = TRUE
    /\ \E opening \in ClearOpenings : InitAfter(opening)
    /\ probe = NoProbe

SpecClear == InitClear /\ [][Next]_vars

\* the grids a piece falls on under gravity: the empty one and the second
\* opening's
GravityOpenings == {opening \in {<<>>, Openings[2]} : AllPlayable(opening)}

\* the first piece of the session has not been locked: the last call, if
\* any, was not a lock, and after a lock no further call is made
FirstPieceFalling == last.lines < 0

\* The life of one piece: a session in which the first piece is moved and
\* turned any number of times while update is called again and again, with
\* the clock past the fall interval or just at it, until the piece is locked
\* (a hard drop locks it at once).  ncalls counts the calls of update that
\* found the clock past the interval.
InitGravity ==
    /\ ghost_shape_enabled = TRUE
    /\ disable_sz_shapes = FALSE
    /\ screen_shake_enabled = TRUE
    /\ \E opening \in GravityOpenings : InitAfter(opening)
    /\ probe = NoProbe

TurnFalling == FirstPieceFalling /\ Turn

ShiftFalling(dx) == FirstPieceFalling /\ Shift(dx)

HardDropFalling ==
    /\ FirstPieceFalling
    /\ hard_drop
    /\ UNCHANGED <<gameVars, ncalls>>

\* update when the clock reads exactly the fall interval after last_fall
EarlyTick ==
    /\ FirstPieceFalling
    /\ update(last_fall + fall_speed)
    /\ UNCHANGED <<gameVars, ncalls>>

\* update when the clock reads more than the fall interval after last_fall
GravityTick ==
    /\ FirstPieceFalling
    /\ update(last_fall + fall_speed + 1)
    /\ ncalls' = ncalls + 1
    /\ UNCHANGED gameVars

NextGravity ==
    \/ TurnFalling
    \/ \E dx \in {-1, 1} : ShiftFalling(dx)
    \/ HardDropFalling
    \/ EarlyTick
    \/ GravityTick

\* a call of update with the clock past the fall interval is counted
TickCounted == FirstPieceFalling /\ ncalls' = ncalls + 1

\* Ticks past the fall interval keep arriving while the piece falls.
\* GravityTick can be taken whenever the piece falls and is the only action
\* that counts a call, so this is weak fairness of GravityTick.
SpecGravity == InitGravity /\ [][NextGravity]_vars /\ WF_ncalls(TickCounted)

\* The program while a session is played that has reached the second
\* opening's grid with an I piece just spawned, under any ghost and shake
\* settings, before the next batch of events is polled.
InitHost ==
    /\ \E ghost \in BOOLEAN, shake \in BOOLEAN :
           /\ ghost_shape_enabled = ghost
           /\ screen_shake_enabled = shake
    /\ disable_sz_shapes = FALSE
    /\ \E k \in PlayableOpenings \cap HostOpenings : InitAfter(Openings[k])
    /\ current_shape = ShapeI
    /\ shape_y = 0
    /\ probe = NoProbe

NextHost ==
    \/ HandleEvent
    \/ Frame
    \/ Draw

SpecHost == InitHost /\ [][NextHost]_vars

\* The calls of Next, and calls with arguments a well-behaved caller does not
\* pass: move(0), and update with a reading not after last_fall.
NextMalformed ==
    \/ Next
    \/ Move(0)
    \/ \E now \in StaleReadings(last_fall, fall_speed) : Update(now)

SpecMalformed == Init /\ [][NextMalformed]_vars

\* A session on the empty grid in which the randomizer returns the O shape
\* every time and the player only drops the piece, softly or hard, again and
\* again.
InitOs ==
    /\ \E setting \in Settings :
           ghost_shape_enabled = setting[1] /\ disable_sz_shapes = setting[2]
    /\ screen_shake_enabled = TRUE
    /\ InitAfter(<<>>)
    /\ current_shape = ShapeO
    /\ shape_y = 0
    /\ next_shape = ShapeO
    /\ probe = NoProbe

DropO ==
    /\ drop("drop", 0)
    /\ next_shape' = ShapeO
    /\ UNCHANGED <<timerVars, hostVars, gameVars, probe, ncalls>>

HardDropO ==
    /\ hard_drop
    /\ next_shape' = ShapeO
    /\ UNCHANGED <<gameVars, ncalls>>

NextOs == DropO \/ HardDropO

\* the player keeps dropping
SpecOs == InitOs /\ [][NextOs]_vars /\ WF_vars(NextOs)

\* Sessions at any level, with the default settings.
InitLevels ==
    /\ ghost_shape_enabled = TRUE
    /\ disable_sz_shapes = FALSE
    /\ screen_shake_enabled = TRUE
    /\ \E k \in PlayableOpenings \cap LevelOpenings :
           InitAt(Openings[k], AnyLevels)
    /\ probe = NoProbe

SpecLevels == InitLevels /\ [][Next]_vars

\* The transform of line 171 on its own: a session just constructed, with any
\* of the seven shapes active in any colour, and the matrix turned again and
\* again without the test of line 172.
InitRotation ==
    /\ ghost_shape_enabled = TRUE
    /\ disable_sz_shapes = FALSE
    /\ screen_shake_enabled = TRUE
    /\ grid = EmptyGrid
    /\ hard_drop_triggered = FALSE
    /\ ghost_effect_active = FALSE
    /\ ghost_effect_frames = 0
    /\ ghost_effect_position = <<0, 0>>
    /\ hard_drop_shape = <<>>
    /\ score_effect = 0
    /\ score_effect_frames = 0
    /\ score_effect_position = <<0, 0>>
    /\ particles = {}
    /\ current_shape \in ChooseShape(FALSE)
    /\ shape_color \in ChooseNextColor
    /\ next_shape \in DrawShape(disable_sz_shapes) \cap {ShapeI}
    /\ next_color \in DrawColor
    /\ shape_x = SpawnX(current_shape)
    /\ shape_y = 0
    /\ score = 0
    /\ level \in Levels
    /\ last_fall \in StartTicks
    /\ fall_speed = FallSpeed(level)
    /\ game_over = FALSE
    /\ InGame
    /\ ncalls = 0
    /\ last = NoCall
    /\ probe = NoProbe

\* line 171 followed by line 173
Quarter ==
    /\ ncalls < MaxTurns
    /\ ncalls' = ncalls + 1
    /\ current_shape' = Rotated(current_shape)
    /\ last' = Called("rotate", 0, TRUE, -1)
    /\ UNCHANGED <<grid, shape_color, next_shape, next_color, shape_x, shape_y,
                   score, game_over>>
    /\ UNCHANGED <<timerVars, effectVars, hostVars, gameVars, probe>>

SpecRotation == InitRotation /\ [][Quarter]_vars

-----------------------------------------------------------------------------
(* Properties.  They are stated on the grid and the piece directly, not     *)
(* through check_collision and lock_shape.                                   *)

\* the grid cells <<row, column>> a shape covers with its anchor at (x, y)
Cells(shape, x, y) == {<<y + rc[1], x + rc[2]>> : rc \in Occupied(shape)}

\* the placement collides: a covered cell is left of, right of or below the
\* grid, or is in the grid and occupied
Collides(g, x, y, shape) ==
    \E cell \in Cells(shape, x, y) :
        \/ cell[2] < 0
        \/ cell[2] >= GRID_WIDTH
        \/ cell[1] >= GRID_HEIGHT
        \/ (cell[1] >= 0 /\ g[cell[1] + 1][cell[2] + 1] # 0)

\* the first row, from y down, from which one more step down collides
Landing(g, x, y, shape) ==
    CHOOSE r \in y..GRID_HEIGHT :
        /\ Collides(g, x, r + 1, shape)
        /\ \A q \in y..r - 1 : ~Collides(g, x, q + 1, shape)

\* the row at which the call of this step locks the piece, if it locks
LockedRow ==
    IF last'.op = "hard_drop"
    THEN Landing(grid, shape_x, shape_y, current_shape)
    ELSE shape_y

\* the rows that are full once the piece is written at row y
FullWith(y) ==
    LET covered == Cells(current_shape, shape_x, y)
    IN  {r \in 0..GRID_HEIGHT - 1 :
            \A c \in 0..GRID_WIDTH - 1 :
                grid[r + 1][c + 1] # 0 \/ <<r, c>> \in covered}

\* the grid with the piece written at row y, before full rows are removed
Written(y) ==
    LET covered == Cells(current_shape, shape_x, y)
    IN  [r \in 1..GRID_HEIGHT |->
            [c \in 1..GRID_WIDTH |->
                IF <<r - 1, c - 1>> \in covered
                THEN shape_color + 1
                ELSE grid[r][c]]]

\* a row with an empty cell
HasGap(line) == \E c \in 1..GRID_WIDTH : line[c] = 0

\* the grid once the piece is locked at row y: the rows with a gap, in their
\* order, under as many empty rows as full rows were removed
Settled(y) ==
    LET kept == SelectSeq(Written(y), HasGap)
    IN  [r \in 1..GRID_HEIGHT - Len(kept) |-> [c \in 1..GRID_WIDTH |-> 0]]
            \o kept

\* this step locks the piece at row y and spawns the next piece: grid, score,
\* active piece and game-over flag
LockedAt(y) ==
    /\ grid' = Settled(y)
    /\ score' = score + 10 * Cardinality(FullWith(y)) * Cardinality(FullWith(y))
    /\ current_shape' = next_shape
    /\ shape_color' = next_color
    /\ shape_x' = (GRID_WIDTH \div 2) - (Len(next_shape[1]) \div 2)
    /\ shape_y' = 0
    /\ game_over' = (game_over \/ Collides(grid', shape_x', 0, next_shape))

\* this step is one soft drop: the piece moves down one row if it can, and
\* is locked where it is if it cannot
SoftDropStep ==
    IF ~Collides(grid, shape_x, shape_y + 1, current_shape)
    THEN /\ shape_y' = shape_y + 1
         /\ UNCHANGED <<grid, score, shape_x, current_shape, shape_color,
                        next_shape, next_color, game_over>>
    ELSE LockedAt(shape_y)

\* the row at which soft drops repeated from row y lock the piece
RECURSIVE SoftDropRow(_, _, _, _)
SoftDropRow(g, x, y, shape) ==
    IF ~Collides(g, x, y + 1, shape)
    THEN SoftDropRow(g, x, y + 1, shape)
    ELSE y

\* the 90-degree (clockwise) rotation of a matrix
Rot90(m) ==
    [i \in 1..Len(m[1]) |-> [j \in 1..Len(m) |-> m[Len(m) + 1 - j][i]]]

\* C1: the grid has GRID_HEIGHT rows of GRID_WIDTH cells and, in every
\* reachable state (so after every lock, by drop, hard_drop or update), each
\* row has at least one empty cell.
NoFullRow ==
    /\ Len(grid) = GRID_HEIGHT
    /\ \A r \in 1..GRID_HEIGHT :
           /\ Len(grid[r]) = GRID_WIDTH
           /\ \E c \in 1..GRID_WIDTH : grid[r][c] = 0

\* a soft drop has locked the piece and four rows were removed at once
SoftDropClearedFour == last.op = "drop" /\ last.lines = 4

GameOverFreezes ==
    [][game_over =>
          UNCHANGED <<grid, shape_x, shape_y, current_shape, next_shape,
                      next_color, score>>]_vars

\* C4: while game_over is false the active piece has its four cells, each in
\* columns 0..GRID_WIDTH - 1 and rows 0..GRID_HEIGHT - 1 and on an empty cell
\* of the grid.
ActivePieceFits ==
    ~game_over =>
        /\ Cardinality(Occupied(current_shape)) = 4
        /\ \A cell \in Cells(current_shape, shape_x, shape_y) :
               /\ cell[1] \in 0..GRID_HEIGHT - 1
               /\ cell[2] \in 0..GRID_WIDTH - 1
               /\ grid[cell[1] + 1][cell[2] + 1] = 0

\* a lock has spawned the next piece next to the blocks of the grid and the
\* game goes on
SpawnedBesideBlocks ==
    /\ ~game_over
    /\ last.lines >= 0
    /\ \E cell \in Cells(current_shape, shape_x, shape_y) :
           cell[2] + 1 < GRID_WIDTH /\ grid[cell[1] + 1][cell[2] + 2] # 0

\* C5: check_collision returns true exactly when the placement collides, the
\* scan of lines 160-167 and the value used by the engine agree, and every
\* cell of the grid it subscripts is inside the grid.
CollisionLaw ==
    probe.done =>
        /\ probe.result = Collides(grid, probe.x, probe.y, probe.shape)
        /\ probe.result = check_collision(grid, probe.x, probe.y, probe.shape)
        /\ probe.reads \subseteq
               (0..GRID_HEIGHT - 1) \X (0..GRID_WIDTH - 1)

\* a placement partly above the grid was accepted after reading the grid
AcceptedAboveGrid ==
    /\ probe.done
    /\ ~probe.result
    /\ probe.y < 0
    /\ probe.reads # {}

\* C6: move(dx), dx being -1 or 1, shifts the anchor by dx exactly when the
\* shifted placement does not collide and leaves it otherwise; the row, the
\* orientation, the grid, the score and the next piece are unchanged.
MoveLaw ==
    [][last'.op = "move" =>
          LET dx == last'.arg
          IN  /\ dx \in {-1, 1}
              /\ shape_x' =
                     IF ~Collides(grid, shape_x + dx, shape_y, current_shape)
                     THEN shape_x + dx
                     ELSE shape_x
              /\ UNCHANGED <<shape_y, current_shape, grid, score, next_shape,
                             next_color>>]_vars

\* move(-1) was rejected with the left edge of the piece at column 0
RejectedAtLeftWall ==
    /\ last.op = "move"
    /\ last.arg = -1
    /\ ~last.applied
    /\ \E cell \in Cells(current_shape, shape_x, shape_y) : cell[2] = 0

\* C7: rotate replaces the matrix by its 90-degree rotation exactly when the
\* rotated matrix does not collide at the anchor and leaves it otherwise; the
\* anchor, the grid and the score are unchanged (no wall kick).
RotateLaw ==
    [][last'.op = "rotate" =>
          /\ current_shape' =
                 IF ~Collides(grid, shape_x, shape_y, Rot90(current_shape))
                 THEN Rot90(current_shape)
                 ELSE current_shape
          /\ UNCHANGED <<shape_x, shape_y, grid, score>>]_vars

\* a rotation was rejected because the rotated piece would cross the right
\* wall
RejectedAtRightWall ==
    /\ last.op = "rotate"
    /\ ~last.applied
    /\ shape_x + Len(current_shape) > GRID_WIDTH

\* C8: drop either moves the piece down one row, when the placement one row
\* lower does not collide, leaving grid and score alone, or else locks it at
\* its anchor and spawns the next piece.
SoftDropLaw == [][last'.op = "drop" => SoftDropStep]_vars

\* a soft drop has locked an upright I piece standing on the floor of the
\* empty grid, in the rows it had reached
SoftDropLockedOnFloor ==
    /\ last.op = "drop"
    /\ last.lines = 0
    /\ \A r \in 1..GRID_HEIGHT, c \in 1..GRID_WIDTH :
           grid[r][c] # 0 <=> (c - 1 = 3 /\ r > GRID_HEIGHT - 4)

\* C9: from a state that is not game over, hard_drop locks the piece in its
\* column and orientation at the first row from which one more step down
\* collides, which is the row repeated soft drops lock it at, and spawns the
\* next piece; an I piece at spawn on the empty grid fills exactly columns
\* 3..6 of the bottom row.
HardDropLaw ==
    [][(last'.op = "hard_drop" /\ ~game_over) =>
          LET row == Landing(grid, shape_x, shape_y, current_shape)
          IN  /\ row = SoftDropRow(grid, shape_x, shape_y, current_shape)
              /\ LockedAt(row)
              /\ (/\ grid = EmptyGrid
                  /\ current_shape = ShapeI
                  /\ shape_x = 3
                  /\ shape_y = 0) =>
                     \A r \in 1..GRID_HEIGHT, c \in 1..GRID_WIDTH :
                         grid'[r][c] # 0 <=> (r = GRID_HEIGHT /\ c - 1 \in 3..6)
         ]_vars

\* an I piece was hard-dropped onto the empty grid
HardDroppedToFloor ==
    /\ last.op = "hard_drop"
    /\ ~game_over
    /\ \A r \in 1..GRID_HEIGHT, c \in 1..GRID_WIDTH :
           grid[r][c] # 0 <=> (r = GRID_HEIGHT /\ c - 1 \in 3..6)

\* C10: update with clock reading `now` does one soft drop and sets
\* last_fall to now exactly when now - last_fall > fall_speed, and otherwise
\* changes nothing of the engine; the piece moves at most one row.
TickLaw ==
    [][last'.op = "update" =>
          LET now == last'.arg
          IN  IF now - last_fall > fall_speed
              THEN /\ SoftDropStep
                   /\ last_fall' = now
                   /\ shape_y' <= shape_y + 1
              ELSE UNCHANGED <<coreVars, timerVars, effectVars>>]_vars

\* a tick exactly one fall interval after the last fall did nothing
TickAtInterval ==
    /\ last.op = "update"
    /\ ~last.applied
    /\ last.arg = last_fall + fall_speed

\* C11: once game_over is true it stays true, whatever is called.
GameOverStays == [][game_over => game_over']_vars

\* the game is over and a call that locks nothing has been made since
CalledAfterGameOver == game_over /\ last.op # "none" /\ last.lines = -1

\* C12: game_over changes only in a call that locks and spawns, and a spawn
\* made while it is false sets it exactly when the promoted piece collides
\* with the grid at its spawn position.
GameOverBySpawn ==
    [][/\ game_over' # game_over => last'.lines >= 0
       /\ (last'.lines >= 0 /\ ~game_over) =>
              game_over' = Collides(grid', shape_x', shape_y', current_shape')
      ]_vars

\* the first call has locked the piece and the spawn after it collided
FirstSpawnCollided ==
    /\ ncalls = 1
    /\ game_over
    /\ Collides(grid, shape_x, shape_y, current_shape)

\* C13: the score is 0 at first, and every call leaves it at least what it
\* was, and so at least 0; it changes only in a call whose lock removes at
\* least one row.
ScoreMonotone ==
    /\ score = 0
    /\ [][/\ score' >= score
          /\ score' >= 0
          /\ score' # score => last'.lines >= 1]_vars

\* points were scored and a later call that locks nothing has kept them
ScoreKept == score > 0 /\ last.lines = -1

\* some orientation of the S or the Z shape
IsSZ(shape) ==
    \E n \in 0..3 : shape \in {RotatedTimes(ShapeS, n), RotatedTimes(ShapeZ, n)}

\* C14 (as stated): in a session started with disable_sz_shapes on, neither
\* the active piece nor the next piece is ever an S or a Z shape.
NoSZWhenDisabled ==
    disable_sz_shapes => ~IsSZ(current_shape) /\ ~IsSZ(next_shape)

\* the seven shapes as SHAPES lists them
BaseShapes == {SHAPES[i] : i \in 1..Len(SHAPES)}

\* C15: a call that locks ends with the next piece promoted: the active piece
\* has the shape, in base orientation, and the colour the next piece had, at
\* row 0 and column GRID_WIDTH div 2 - width div 2; and a next piece and
\* colour are drawn.
SpawnLaw ==
    [][last'.lines >= 0 =>
          /\ next_shape \in BaseShapes
          /\ current_shape' = next_shape
          /\ shape_color' = next_color
          /\ shape_y' = 0
          /\ shape_x' = (GRID_WIDTH \div 2) - (Len(next_shape[1]) \div 2)
          /\ next_shape' \in BaseShapes
          /\ disable_sz_shapes => next_shape' \notin {ShapeS, ShapeZ}
          /\ next_color' \in 0..6]_vars

\* a lock has promoted a T piece, in the colour drawn for it, to column 4
PromotedT ==
    /\ last.lines >= 0
    /\ current_shape = ShapeT
    /\ shape_color \notin ActiveColors
    /\ shape_x = 4
    /\ shape_y = 0

\* C16: the matrix of each of the seven shapes, and each matrix the transform
\* gives from it, has four occupied cells, and the transform applied four
\* times gives a matrix with the same rows, of the same lengths, holding the
\* same cells.
RotationCycle ==
    /\ Cardinality(Occupied(current_shape)) = 4
    /\ LET again == RotatedTimes(current_shape, 4)
       IN  /\ Len(again) = Len(current_shape)
           /\ \A r \in 1..Len(current_shape) :
                  /\ Len(again[r]) = Len(current_shape[r])
                  /\ \A c \in 1..Len(current_shape[r]) :
                         again[r][c] = current_shape[r][c]
    /\ ncalls = 4 => \E i \in 1..Len(SHAPES) : current_shape = SHAPES[i]

\* the L shape is back after four turns
TurnedLFourTimes == ncalls = 4 /\ current_shape = ShapeL

\* GRID_HEIGHT rows of GRID_WIDTH cells, each 0 or a colour index plus one
WellFormed(g) ==
    /\ Len(g) = GRID_HEIGHT
    /\ \A r \in 1..GRID_HEIGHT :
           /\ Len(g[r]) = GRID_WIDTH
           /\ \A c \in 1..GRID_WIDTH : g[r][c] \in 0..NUM_COLORS

\* C17: the grid always has 20 rows of 10 cells holding 0 or a value in
\* 1..7; a call that locks writes the piece's colour index plus one into the
\* cells the piece covers (and removes the full rows), and a call that does
\* not lock leaves the grid alone.
GridCells ==
    /\ WellFormed(grid)
    /\ [][/\ WellFormed(grid')
          /\ last'.lines >= 0 => grid' = Settled(LockedRow)
          /\ last'.lines < 0 => grid' = grid]_vars

\* the first piece was locked on the empty grid: four cells hold its colour
\* index plus one
FourCellsColoured ==
    /\ last.lines = 0
    /\ Cardinality({rc \in (1..GRID_HEIGHT) \X (1..GRID_WIDTH) :
                       grid[rc[1]][rc[2]] # 0}) = 4
    /\ \A r \in 1..GRID_HEIGHT, c \in 1..GRID_WIDTH :
           grid[r][c] # 0 => grid[r][c] - 1 \in ActiveColors

MalformedNoOp ==
    [][(\/ last'.op = "move" /\ last'.arg = 0
        \/ last'.op = "update" /\ last'.arg <= last_fall) =>
          /\ UNCHANGED <<coreVars, timerVars, effectVars, hostVars>>
          /\ ScanFrom(grid, shape_x, shape_y, current_shape, 1, {}).reads
                 \subseteq (0..GRID_HEIGHT - 1) \X (0..GRID_WIDTH - 1)]_vars

\* a tick with a reading long before last_fall was ignored
StaleTickIgnored ==
    /\ last.op = "update"
    /\ ~last.applied
    /\ last.arg < last_fall - fall_speed

\* C20 (as stated): O pieces dropped from spawn on the empty grid, without a
\* horizontal move, reach a lock at which two full rows form, after which
\* the score is 40 and the grid is empty.
OsClearTwoRows == <>(last.lines = 2 /\ score = 40 /\ grid = EmptyGrid)

\* C20 (amended): O pieces dropped from spawn on the empty grid, without a
\* horizontal move, never form a full row: the score stays 0, only columns 4
\* and 5 are ever occupied, and the game is over exactly when these two are
\* occupied in the top row, all twenty rows of them being occupied then.
OsFillTwoColumns ==
    /\ score = 0
    /\ last.lines <= 0
    /\ \A r \in 1..GRID_HEIGHT, c \in 1..GRID_WIDTH :
           grid[r][c] # 0 => c - 1 \in {4, 5}
    /\ game_over <=> grid[1][5] # 0
    /\ game_over =>
           \A r \in 1..GRID_HEIGHT : grid[r][5] # 0 /\ grid[r][6] # 0

\* ten O pieces fill columns 4 and 5 and the game is over with score 0
ToppedOutWithOs ==
    /\ game_over
    /\ score = 0
    /\ \A r \in 1..GRID_HEIGHT, c \in 1..GRID_WIDTH :
           grid[r][c] # 0 <=> c - 1 \in {4, 5}

\* the cells of the probed placement above row 0 in a column of the grid
AboveInside ==
    {cell \in Cells(probe.shape, probe.x, probe.y) :
        cell[1] < 0 /\ cell[2] \in 0..GRID_WIDTH - 1}

\* C21 as stated: a placement whose set cells are all above row 0 is never
\* reported as colliding, in whatever columns the cells are.
AboveTopNeverCollides ==
    (probe.done /\ \A cell \in Cells(probe.shape, probe.x, probe.y) :
                       cell[1] < 0)
        => ~probe.result

\* C21: a set cell above row 0 in a column of the grid is never what makes
\* check_collision return true, whatever the grid holds: the result is the
\* one the other cells give, and a placement with no other cell is accepted.
\* A set cell left or right of the grid collides above row 0 as it does below.
AboveTopLaw ==
    probe.done =>
        LET cells == Cells(probe.shape, probe.x, probe.y)
        IN  /\ probe.result =
                   \E cell \in cells \ AboveInside :
                       \/ cell[2] < 0
                       \/ cell[2] >= GRID_WIDTH
                       \/ cell[1] >= GRID_HEIGHT
                       \/ (cell[1] >= 0 /\ grid[cell[1] + 1][cell[2] + 1] # 0)
            /\ (cells = AboveInside => ~probe.result)
            /\ (\E cell \in cells : cell[1] < 0 /\ cell[2] \notin 0..GRID_WIDTH - 1)
                   => probe.result

\* a placement wholly above the grid was accepted over a column that is
\* occupied up to row 0
AcceptedOverFullColumn ==
    /\ probe.done
    /\ ~probe.result
    /\ Cells(probe.shape, probe.x, probe.y) = AboveInside
    /\ \E cell \in AboveInside : grid[1][cell[2] + 1] # 0

\* the lowest row of the grid at which the active piece fits in its column
DeepestFree ==
    LET free == {r \in 0..GRID_HEIGHT - 1 :
                    ~Collides(grid, shape_x, r, current_shape)}
    IN  IF free = {} THEN -1 ELSE CHOOSE r \in free : \A q \in free : q <= r

\* draw_current_shape has just computed the ghost of a piece in play
GhostDrawn == ~game_over /\ ghost_shape_enabled /\ ghost_y' # -1

\* C22 as stated: the ghost row is the greatest row at which the piece, in
\* its column, does not collide, on every grid.
GhostIsDeepestFree == [][GhostDrawn => ghost_y' = DeepestFree]_vars

\* C22: the ghost row is the row the piece comes to rest at when it falls
\* straight down from its anchor: the first row y, from anchor_y on, at which
\* one more step down collides, every row passed on the way being free.  It
\* is the row at which hard_drop locks the piece and that hard_drop records;
\* drawing it changes neither the anchor nor the grid.  Under an overhang
\* there can be free rows further down that it does not reach.
GhostLaw ==
    [][/\ GhostDrawn =>
              /\ ghost_y' = Landing(grid, shape_x, shape_y, current_shape)
              /\ ghost_y' <= DeepestFree
              /\ \A r \in shape_y + 1..ghost_y' :
                     ~Collides(grid, shape_x, r, current_shape)
              /\ UNCHANGED <<coreVars, timerVars, effectVars>>
       /\ (ncalls' # ncalls /\ last'.op = "hard_drop") =>
              /\ ghost_effect_position' =
                     <<shape_x, Landing(grid, shape_x, shape_y, current_shape)>>
              /\ LockedAt(ghost_effect_position'[2])
      ]_vars

\* the ghost was drawn on top of an overhang with free rows beneath it
GhostAboveCave ==
    /\ ~game_over
    /\ ghost_y = Landing(grid, shape_x, shape_y, current_shape)
    /\ ghost_y < DeepestFree

\* the cells of the rows this lock removes, with the colours they have when
\* the rows are removed
ClearedCells ==
    {<<r, c, Written(LockedRow)[r + 1][c + 1] - 1>> :
        r \in FullWith(LockedRow), c \in 0..GRID_WIDTH - 1}

\* C23: when a lock removes at least one row, the particles it appends start
\* at the cells of the removed rows and have the colours of those cells.
BurstFromClearedRows ==
    [][(ncalls' # ncalls /\ ~game_over /\ last'.lines > 0) =>
          particles' = particles \cup ClearedCells]_vars

\* this step replaces the session with one just constructed
NewSession ==
    /\ last'.op = "start_game"
    /\ grid' = EmptyGrid
    /\ score' = 0
    /\ ~game_over'
    /\ state' = "GAME"

\* C27: in the host loop, once the session is game over no event handled and
\* no frame calls move, rotate, drop, hard_drop or update on it, the events
\* queued behind the one that ended the game included: every step leaves
\* its grid, score, pieces, timer and the record of its last call as they
\* are, or replaces the session with a new one.
HostStopsAtGameOver ==
    [][game_over => (UNCHANGED <<coreVars, timerVars, last>> \/ NewSession)]_vars

\* a hard drop ended the game with a LEFT key queued behind it, and that key
\* and the frame after it have been gone through
QueuedKeyDropped ==
    /\ game_over
    /\ state = "GAME"
    /\ last.op = "hard_drop"
    /\ stage = "draw"
    /\ ncalls = 1

\* The core state after the call recorded in last', as a relation between
\* the core and timer state before, the call with its argument, and the
\* pieces drawn (next_shape', next_color'; for a new session the first piece
\* as well): no setting and no effect state occurs in it.
CoreOutcome ==
    LET call == last'
        only(changed) ==
            /\ changed
            /\ UNCHANGED <<grid, score, shape_color, next_shape, next_color,
                           shape_y, game_over>>
    IN  CASE call.op = "rotate" ->
               only(/\ shape_x' = shape_x
                    /\ current_shape' =
                           IF Collides(grid, shape_x, shape_y, Rot90(current_shape))
                           THEN current_shape
                           ELSE Rot90(current_shape))
          [] call.op = "move" ->
               only(/\ current_shape' = current_shape
                    /\ shape_x' =
                           IF Collides(grid, shape_x + call.arg, shape_y,
                                       current_shape)
                           THEN shape_x
                           ELSE shape_x + call.arg)
          [] call.op = "drop" -> SoftDropStep
          [] call.op = "hard_drop" ->
               LockedAt(Landing(grid, shape_x, shape_y, current_shape))
          [] call.op = "update" ->
               IF call.arg - last_fall > fall_speed
               THEN SoftDropStep
               ELSE UNCHANGED coreVars
          [] call.op = "start_game" ->
               /\ grid' = EmptyGrid
               /\ score' = 0
               /\ shape_x' = (GRID_WIDTH \div 2) - (Len(current_shape'[1]) \div 2)
               /\ shape_y' = 0
               /\ ~game_over'
          [] OTHER -> UNCHANGED coreVars

\* C24: the grid, the active piece, the next piece, the score and the
\* game-over flag after a step are a function of their values before, the
\* timer, the command and the pieces drawn alone: a step that made a call
\* gives the core state CoreOutcome, a step that made none leaves it as it
\* is.  The ghost and shake settings, the particles, the score popup, the
\* ghost effect and the shake do not occur in that function, so two runs
\* given the same commands, clock readings and draws agree on the core state
\* whatever these are.
CosmeticsIgnored ==
    [][/\ last' # last => CoreOutcome
       /\ last' = last => (UNCHANGED coreVars \/ CoreOutcome)]_vars

\* a hard drop removed a row with the ghost and the shake switched off, and
\* left particles and a score popup behind
ClearedWithEffectsOff ==
    /\ last.op = "hard_drop"
    /\ last.lines > 0
    /\ ~ghost_shape_enabled
    /\ ~screen_shake_enabled
    /\ particles # {}
    /\ score_effect_frames > 0
    /\ score > 0

\* this step is a lock made while the game was not over
LockStep == ncalls' # ncalls /\ ~game_over /\ last'.lines >= 0

\* C25: a lock made while the game is not over removes between 0 and 4
\* rows, and every row it removes is a row the locking piece wrote a cell
\* in: the rows removed are exactly the rows that are full once the piece is
\* written, and all of them are among the rows the piece covers.
LockClearsTouchedRows ==
    [][LockStep =>
          LET rows == FullWith(LockedRow)
              covered == Cells(current_shape, shape_x, LockedRow)
          IN  /\ last'.lines = Cardinality(rows)
              /\ last'.lines \in 0..4
              /\ rows \subseteq {cell[1] : cell \in covered}
              /\ grid' = Settled(LockedRow)]_vars

\* a hard drop removed four rows at once
HardDropClearedFour == last.op = "hard_drop" /\ last.lines = 4 /\ score = 160

\* C26: removing rows shifts down.  With k rows full once the piece is
\* written, the grid after the lock has k empty rows on top, and every row
\* that was not full is found as many rows further down as there were full
\* rows below it, with its cells unchanged: the rows that stay keep their
\* order, also when the rows removed are not next to each other.
ShiftDownLaw ==
    [][LockStep =>
          LET pre == Written(LockedRow)
              full == FullWith(LockedRow)
              k == Cardinality(full)
              below(r) == Cardinality({q \in full : q > r})
          IN  /\ Len(grid') = GRID_HEIGHT
              /\ \A r \in 1..k : grid'[r] = EmptyRow
              /\ \A r \in (0..GRID_HEIGHT - 1) \ full :
                     grid'[r + 1 + below(r)] = pre[r + 1]
              /\ SubSeq(grid', k + 1, GRID_HEIGHT) = SelectSeq(pre, HasGap)]_vars

\* rows 16, 18 and 19 were removed and row 17, between them, is now the
\* bottom row: it has the cell of the I piece in column 3, the cell of the T
\* piece in column 8 and none in column 9, and the row above it is what row
\* 15 was, with the T piece in column 8
RemovedAroundRow ==
    /\ last.lines = 3
    /\ grid[GRID_HEIGHT][4] # 0
    /\ grid[GRID_HEIGHT][9] = 3
    /\ grid[GRID_HEIGHT][10] = 0
    /\ grid[GRID_HEIGHT - 1][4] = 0
    /\ grid[GRID_HEIGHT - 1][9] = 3

\* the I piece standing: 4 rows of 1 cell
UprightI == [i \in 1..4 |-> <<1>>]

\* C28: a turn leaves the O matrix as it is, and takes the I matrix from
\* lying (1 row of 4) to standing (4 rows of 1) and back, so that the I
\* piece has these two orientations only and two turns give it back.
TurnsOfOAndI ==
    [][/\ current_shape = ShapeO => current_shape' = ShapeO
       /\ current_shape = ShapeI =>
              /\ current_shape' = UprightI
              /\ Rotated(current_shape') = ShapeI
       /\ current_shape = UprightI => current_shape' = ShapeI
       /\ current_shape \in {ShapeO, ShapeI, UprightI} =>
              current_shape' \in {ShapeO, ShapeI, UprightI}]_vars

\* an I piece was turned twice and lies as it did
TurnedITwice ==
    /\ ncalls = 2
    /\ last.op = "rotate"
    /\ current_shape = ShapeI

\* C29: while a piece falls its row never decreases and is a row of the
\* grid; each tick past the fall interval moves it down one row or locks it,
\* so that fewer than ROWS such ticks can pass before it is locked, whatever
\* moves and turns come in between; a hard drop locks it in the same call,
\* at a row of the grid not above the one it was at; and with such ticks
\* arriving again and again the piece is locked in the end.
PieceLocks ==
    /\ [](FirstPieceFalling =>
             /\ shape_y \in 0..GRID_HEIGHT - 1
             /\ ncalls <= shape_y
             /\ ncalls < GRID_HEIGHT)
    /\ [][FirstPieceFalling =>
             /\ FirstPieceFalling' => shape_y' >= shape_y
             /\ ncalls' # ncalls =>
                    \/ FirstPieceFalling' /\ shape_y' = shape_y + 1
                    \/ ~FirstPieceFalling' /\ last'.lines >= 0
             /\ last'.op = "hard_drop" =>
                    /\ ~FirstPieceFalling'
                    /\ last'.lines >= 0
                    /\ ghost_effect_position'[2] \in shape_y..GRID_HEIGHT - 1
          ]_vars
    /\ <>(~FirstPieceFalling /\ ncalls <= GRID_HEIGHT)

\* an I piece lying flat on the empty grid was moved down by 19 ticks and
\* locked in the bottom row by the 20th
LockedByTwentiethTick ==
    /\ ncalls = GRID_HEIGHT
    /\ last.op = "update"
    /\ last.lines = 0
    /\ \E c \in 1..GRID_WIDTH : grid[GRID_HEIGHT][c] # 0

\* the number of occupied cells of a grid
Blocks(g) ==
    Cardinality({rc \in (1..GRID_HEIGHT) \X (1..GRID_WIDTH) :
                    g[rc[1]][rc[2]] # 0})

\* C30: a lock made while the game is not over writes exactly 4 cells, all
\* of them in the grid and all of them empty before the write, so that no
\* locked cell is overwritten; and after a lock that removes k rows the grid
\* holds the occupied cells it held before, plus 4, minus GRID_WIDTH times k.
LockWritesFourFreeCells ==
    [][LockStep =>
          LET y == LockedRow
              covered == Cells(current_shape, shape_x, y)
          IN  /\ Cardinality(covered) = 4
              /\ \A cell \in covered :
                     /\ cell[1] \in 0..GRID_HEIGHT - 1
                     /\ cell[2] \in 0..GRID_WIDTH - 1
                     /\ grid[cell[1] + 1][cell[2] + 1] = 0
              /\ grid' = Settled(y)
              /\ Blocks(grid') =
                     Blocks(grid) + 4 - GRID_WIDTH * last'.lines]_vars

\* a soft drop locked a piece and removed two rows: the grid holds 16 cells
\* fewer than before
SoftDropClearedTwo ==
    /\ last.op = "drop"
    /\ last.lines = 2
    /\ ~game_over

\* the event handled by this step is a press of `key`
KeyHandled(key) ==
    stage = "events" /\ events # <<>> /\ Head(events) = <<"KEYDOWN", key>>

\* this step is the handling of a key event, or a part of the frame that
\* follows the events: the update of Game.run or the drawing of the screen
KeyOrFrame ==
    \/ stage = "events" /\ events # <<>> /\ Head(events)[1] = "KEYDOWN"
    \/ stage = "events" /\ events = <<>> /\ stage' = "draw"
    \/ stage = "draw" /\ stage' = "events"

\* Restart is chosen in this step: Return is pressed with the second entry
\* of the pause menu selected, or the menu is drawn with the pointer pressed
\* on that entry, which selects it and leaves the menu
RestartChosen ==
    \/ KeyHandled("RETURN") /\ paused_selected = 1
    \/ stage = "draw" /\ state' = "GAME" /\ paused_selected' = 1

\* after this step the session is a new one at the level of the old one: an
\* empty grid, no score, a piece at its spawn position, and the host plays it
FreshSessionAtSameLevel ==
    /\ grid' = EmptyGrid
    /\ score' = 0
    /\ ~game_over'
    /\ \E k \in 1..Len(SHAPES) : current_shape' = SHAPES[k]
    /\ shape_x' = SpawnX(current_shape')
    /\ shape_y' = 0
    /\ level' = level
    /\ fall_speed' = fall_speed
    /\ state' = "GAME"

\* C31: while the host is PAUSED, no key event and no frame changes the
\* grid, the active piece (matrix, anchor, colour), the next piece, the score
\* or the game-over flag of the session, unless Restart is chosen, and then
\* the session is replaced by a fresh one at the same level; Return on
\* Continue and Escape set the host back to GAME with the session as it was.
PausedSessionFrozen ==
    [][state = "PAUSED" /\ KeyOrFrame =>
          IF RestartChosen
          THEN FreshSessionAtSameLevel
          ELSE /\ UNCHANGED <<coreVars, timerVars>>
               /\ state' \in {"PAUSED", "GAME", "MAIN_MENU"}
               /\ KeyHandled("ESCAPE") => state' = "GAME"
               /\ KeyHandled("RETURN") /\ paused_selected = 0 => state' = "GAME"
       ]_vars

\* Escape, Down and Return came in one batch while the first frame's session
\* was played: the session was paused, Restart was selected and chosen, and
\* a new session at the same level is played, its grid empty
RestartedFromPauseByKeys ==
    /\ ncalls = 1
    /\ state = "GAME"
    /\ paused_selected = 1
    /\ last.op = "start_game"
    /\ last.arg = level
    /\ grid = EmptyGrid
    /\ score = 0

\* this step calls start_game and leaves a session that differs from the one
\* before it
SessionReplaced ==
    /\ last'.op = "start_game"
    /\ <<coreVars, timerVars, last>>' # <<coreVars, timerVars, last>>

\* C32: a session is replaced by a new one only by a click on a level button
\* while the host is in LEVEL_SELECT or by Restart while it is PAUSED; in
\* particular no key press and no mouse click handled while the host is in
\* GAME calls start_game or discards the grid and the score of the session.
ReplacedOnlyByLevelButtonOrRestart ==
    [][SessionReplaced =>
          \/ /\ state = "LEVEL_SELECT"
             /\ stage = "events"
             /\ events # <<>>
             /\ Head(events)[1] = "MOUSEBUTTONDOWN"
          \/ state = "PAUSED" /\ RestartChosen]_vars

====
